---- MODULE Spec2Model ----
(***************************************************************************)
(* gibson2/core/physics/interactive_objects.py                             *)
(*                                                                         *)
(* Two parts of the module are modelled:                                   *)
(*   - Object: the load() / pose accessor life cycle (ObjSpec);            *)
(*   - InteractiveObj2.__init__: the bounding-box rescaling of a URDF      *)
(*     element tree (Spec, and LiveSpec with the loop's progress).         *)
(*                                                                         *)
(* Floating point numbers are modelled as exact rationals <<n, d>> in      *)
(* lowest terms with d >= 0, extended with the IEEE specials               *)
(* <<1, 0>> = +inf, <<-1, 0>> = -inf and <<0, 0>> = nan, which is what     *)
(* numpy produces (with a warning, no exception) on a division by zero.    *)
(* An attribute "a b c" is modelled by the triple of numbers it parses to: *)
(* str() of a float64 is its shortest round-trip representation.           *)
(***************************************************************************)
EXTENDS Integers, Sequences, FiniteSets, TLC

VARIABLES
    \* ---- InteractiveObj2.__init__ -------------------------------------
    doc,               \* which element tree ET.parse returned (index in Docs)
    attrs,             \* the mutable attributes of every element of the tree
    hasBBox,           \* "bounding_box" in xml_element.keys()
    bounding_box,      \* xml_element.attrib["bounding_box"]
    original_bbox,     \* bbox_max - bbox_min of misc/bbox.json
    scale,             \* the local variable scale
    parent_link_name,  \* the local variable parent_link_name
    pc,                \* position in __init__
    pass,              \* 1: rescale to bounding_box, 2: rescale back
    err,               \* the exception that ended __init__, or "none"
    trace,             \* the links visited by the loop, with their entry scale
    \* ---- Object ---------------------------------------------------------
    body_id,           \* self.body_id
    loaded,            \* self.loaded
    engine,            \* the physics engine: bodies created, pose of the body
    last,              \* the last method call: what it did and returned
    returned,          \* the handles load() has returned so far
    ncalls             \* number of method calls made so far

treeVars == <<doc, attrs, hasBBox, bounding_box, original_bbox, scale,
              parent_link_name, pc, pass, err, trace>>
objVars == <<body_id, loaded, engine, last, returned, ncalls>>
vars == <<doc, attrs, hasBBox, bounding_box, original_bbox, scale,
          parent_link_name, pc, pass, err, trace,
          body_id, loaded, engine, last, returned, ncalls>>

(***************************************************************************)
(* Bounds of the model.                                                    *)
(***************************************************************************)
\* the x and y extents of the boxes range over 0..MaxDim
MaxDim == 2
\* the loop is followed for at most MaxVisits iterations per pass
MaxVisits == 4
\* number of method calls made on one object
MaxCalls == 4

(***************************************************************************)
(* Numbers: rationals with inf and nan.                                    *)
(***************************************************************************)
AbsI(n) == IF n < 0 THEN -n ELSE n

\* (Throughout, an intermediate result is bound as the one element of a set,
\* CHOOSE r \in {F(x) : x \in {e}} : TRUE, so that e is computed once and F
\* works on its value.)
RECURSIVE GCD(_, _)
GCD(a, b) ==
    IF b = 0 THEN a ELSE CHOOSE r \in {GCD(b1, c) : b1 \in {b}, c \in {a % b}} : TRUE

\* n/d reduced by their greatest common divisor g, with the sign in n
Reduce(n, d, g) ==
    IF g = 0 THEN <<0, 0>>
    ELSE IF d < 0 THEN <<(-n) \div g, (-d) \div g>>
    ELSE <<n \div g, d \div g>>

\* n/d in lowest terms, d >= 0; x/0 is +-inf, 0/0 is nan
Norm(n, d) ==
    CHOOSE r \in {Reduce(n1, d1, GCD(AbsI(n1), AbsI(d1))) : n1 \in {n}, d1 \in {d}} : TRUE

Q(n) == <<n, 1>>
NaN == <<0, 0>>
IsNaN(a) == a = NaN
IsInf(a) == a[2] = 0 /\ a[1] # 0
IsFinite(a) == a[2] # 0
IsZero(a) == a[2] # 0 /\ a[1] = 0

Mul(a, b) == Norm(a[1] * b[1], a[2] * b[2])
Div(a, b) == Norm(a[1] * b[2], a[2] * b[1])
AbsQ(a) == <<AbsI(a[1]), a[2]>>
\* a + b for the values a, b: inf - inf is nan
Sum(a, b) ==
    IF IsNaN(a) \/ IsNaN(b) THEN NaN
    ELSE IF IsInf(a) THEN (IF IsInf(b) /\ b # a THEN NaN ELSE a)
    ELSE IF IsInf(b) THEN b
    ELSE Norm(a[1] * b[2] + b[1] * a[2], a[2] * b[2])
Add(a, b) == CHOOSE r \in {Sum(a1, b1) : a1 \in {a}, b1 \in {b}} : TRUE

V(x, y, z) == <<Q(x), Q(y), Q(z)>>
VMul(u, v) == <<Mul(u[1], v[1]), Mul(u[2], v[2]), Mul(u[3], v[3])>>
VDiv(u, v) == <<Div(u[1], v[1]), Div(u[2], v[2]), Div(u[3], v[3])>>
VAbs(u) == <<AbsQ(u[1]), AbsQ(u[2]), AbsQ(u[3])>>
VFinite(u) == \A i \in 1..3 : IsFinite(u[i])
VNonZero(u) == \A i \in 1..3 : ~IsZero(u[i])
Ones == V(1, 1, 1)

(***************************************************************************)
(* Joint axes.  An axis attribute is [xyz, norm]: the vector xyz itself    *)
(* when norm is FALSE, the vector xyz / |xyz| when norm is TRUE (xyz is    *)
(* then a finite non-zero integer vector with no common factor), so that   *)
(* the result of a division by np.linalg.norm is represented exactly.      *)
(***************************************************************************)
LCM(a, b) == (a * b) \div GCD(a, b)

\* the integer vector with no common factor that points along the finite,
\* non-zero vector w
LCM3(w) == LCM(LCM(w[1][2], w[2][2]), w[3][2])
Numerators(w, l) ==
    <<w[1][1] * (l \div w[1][2]), w[2][1] * (l \div w[2][2]), w[3][1] * (l \div w[3][2])>>
GCD3(i) == GCD(GCD(AbsI(i[1]), AbsI(i[2])), AbsI(i[3]))
DivideOut(i, g) == <<Q(i[1] \div g), Q(i[2] \div g), Q(i[3] \div g)>>
PrimitiveInts(i) == CHOOSE r \in {DivideOut(i, g) : g \in {GCD3(i)}} : TRUE
Primitive(w) ==
    CHOOSE r \in {PrimitiveInts(i) :
                    i \in {Numerators(w1, l) : w1 \in {w}, l \in {LCM3(w)}}} : TRUE

SumSq(w) ==
    CHOOSE r \in {Add(Add(Mul(w1[1], w1[1]), Mul(w1[2], w1[2])), Mul(w1[3], w1[3])) :
                    w1 \in {w}} : TRUE

\* new_axis_xyz /= np.linalg.norm(new_axis_xyz), for new_axis_xyz a positive
\* multiple of w: 0/0 and inf/inf are nan, finite/inf is 0
DivideByNorm(w) ==
    IF \E k \in 1..3 : IsNaN(w[k]) THEN [xyz |-> <<NaN, NaN, NaN>>, norm |-> FALSE]
    ELSE IF \E k \in 1..3 : IsInf(w[k])
        THEN [xyz |-> <<IF IsInf(w[1]) THEN NaN ELSE Q(0),
                        IF IsInf(w[2]) THEN NaN ELSE Q(0),
                        IF IsInf(w[3]) THEN NaN ELSE Q(0)>>, norm |-> FALSE]
    ELSE IF \A k \in 1..3 : IsZero(w[k]) THEN [xyz |-> <<NaN, NaN, NaN>>, norm |-> FALSE]
    ELSE [xyz |-> Primitive(w), norm |-> TRUE]
Normalize(w) == CHOOSE r \in {DivideByNorm(w1) : w1 \in {w}} : TRUE

\* the magnitude of an axis attribute is 1
AxisIsUnit(xyz, norm) == norm \/ (VFinite(xyz) /\ SumSq(xyz) = Q(1))

\* one representation per axis value: a unit vector is held as a direction
AxisValue(xyz, norm) ==
    IF ~norm /\ VFinite(xyz) /\ SumSq(xyz) = Q(1)
    THEN [xyz |-> Primitive(xyz), norm |-> TRUE]
    ELSE [xyz |-> xyz, norm |-> norm]

(***************************************************************************)
(* gibson2.utils.utils.rotate_vector_3d(v, r, p, y, cck=True): the vector  *)
(* v in the frame rotated by roll r, pitch p and yaw y (the transpose of   *)
(* Rz(y) Ry(p) Rx(r) applied to v).  Angles are named; each has a rational *)
(* cosine and sine.                                                        *)
(***************************************************************************)
Cos(a) == CASE a = "0" -> Q(1) [] a = "90" -> Q(0) [] a = "180" -> Q(-1)
            [] a = "270" -> Q(0) [] a = "atan43" -> <<3, 5>>
Sin(a) == CASE a = "0" -> Q(0) [] a = "90" -> Q(1) [] a = "180" -> Q(0)
            [] a = "270" -> Q(-1) [] a = "atan43" -> <<4, 5>>
Neg(a) == <<-a[1], a[2]>>

RzT(v, a) == <<Add(Mul(Cos(a), v[1]), Mul(Sin(a), v[2])),
               Add(Mul(Neg(Sin(a)), v[1]), Mul(Cos(a), v[2])),
               v[3]>>
RyT(v, a) == <<Add(Mul(Cos(a), v[1]), Mul(Neg(Sin(a)), v[3])),
               v[2],
               Add(Mul(Sin(a), v[1]), Mul(Cos(a), v[3]))>>
RxT(v, a) == <<v[1],
               Add(Mul(Cos(a), v[2]), Mul(Sin(a), v[3])),
               Add(Mul(Neg(Sin(a)), v[2]), Mul(Cos(a), v[3]))>>

rotate_vector_3d(v, rpy) ==
    CHOOSE r \in {RxT(v2, rpy[1]) :
                    v2 \in {RyT(v1, rpy[2]) :
                              v1 \in {RzT(v0, rpy[3]) : v0 \in {v}}}} : TRUE

\* the rotation is a multiple of 90 degrees about each axis
RightAngles(rpy) == \A k \in 1..3 : rpy[k] \in {"0", "90", "180", "270"}

(***************************************************************************)
(* The element trees (what ET.parse returns).  A tree is the sequence of   *)
(* its elements in document order; parent is the index of the enclosing    *)
(* element, 0 for the children of the root.  rpy, xyz and scale are <<>>   *)
(* when the attribute is absent.                                           *)
(***************************************************************************)
E(tag, parent) ==
    [tag |-> tag, parent |-> parent, name |-> "", link |-> "", rpy |-> <<>>,
     xyz |-> <<>>, norm |-> FALSE, scale |-> <<>>, filename |-> <<>>]
Link(name) == [E("link", 0) EXCEPT !.name = name]
Mesh(parent, sc) == [E("mesh", parent) EXCEPT !.scale = sc, !.filename = <<"mesh.obj">>]
Origin(parent, xyz, rpy) == [E("origin", parent) EXCEPT !.xyz = xyz, !.rpy = rpy]
Joint(name, rpy) == [E("joint", 0) EXCEPT !.name = name, !.rpy = rpy]
Ref(tag, parent, link) == [E(tag, parent) EXCEPT !.link = link]
Axis(parent, xyz, norm) == [E("axis", parent) EXCEPT !.xyz = xyz, !.norm = norm]

\* one link, the usual nesting link/visual/geometry/mesh, no joint
DocSingle ==
    << Link("base_link"), E("visual", 1), Origin(2, V(1, 2, 1), <<>>),
       E("geometry", 2), Mesh(4, <<>>) >>

\* base_link -> l1, the joint's origin rotated by 90 degrees about z
DocOriginRpy ==
    << Link("base_link"), E("visual", 1), E("geometry", 2), Mesh(3, V(2, 1, 1)),
       Link("l1"), E("collision", 5), Origin(6, V(0, 1, 0), <<>>),
       E("geometry", 6), Mesh(8, <<>>),
       Joint("j1", <<>>), Ref("parent", 10, "base_link"), Ref("child", 10, "l1"),
       Origin(10, V(1, 0, 0), <<"0", "0", "90">>), Axis(10, V(1, 0, 0), FALSE) >>

\* base_link -> l1 -> l2, an rpy attribute on the first joint element
DocJointRpy ==
    << Link("base_link"), Mesh(1, V(1, 1, 1)),
       Link("l1"), E("visual", 3), Mesh(4, <<>>),
       Link("l2"), Mesh(6, <<>>),
       Joint("j1", <<"0", "0", "90">>), Ref("parent", 8, "base_link"),
       Ref("child", 8, "l1"), Origin(8, V(0, 0, 1), <<>>), Axis(8, V(0, 1, 0), FALSE),
       Joint("j2", <<>>), Ref("parent", 13, "l1"), Ref("child", 13, "l2"),
       Origin(13, V(1, 1, 0), <<>>), Axis(13, V(1, 1, 0), TRUE) >>

\* base_link with two outgoing joints, no rotation anywhere
DocBranch ==
    << Link("base_link"), Mesh(1, <<>>),
       Link("arm_a"), Mesh(3, <<>>),
       Link("arm_b"), E("visual", 5), Origin(6, V(1, 1, 1), <<>>), Mesh(6, <<>>),
       Joint("ja", <<>>), Ref("parent", 9, "base_link"), Ref("child", 9, "arm_a"),
       Origin(9, V(1, 0, 0), <<>>), Axis(9, V(0, 0, 1), FALSE),
       Joint("jb", <<>>), Ref("parent", 14, "base_link"), Ref("child", 14, "arm_b"),
       Origin(14, V(0, 1, 0), <<>>), Axis(14, V(1, 0, 0), FALSE) >>

\* base_link with two outgoing joints, each joint element with its own rpy
DocBranchRpy ==
    << Link("base_link"), Mesh(1, <<>>),
       Link("arm_a"), Mesh(3, <<>>),
       Link("arm_b"), Mesh(5, <<>>),
       Joint("ja", <<"0", "0", "90">>), Ref("parent", 7, "base_link"),
       Ref("child", 7, "arm_a"), Origin(7, V(1, 1, 1), <<>>), Axis(7, V(0, 0, 1), FALSE),
       Joint("jb", <<"90", "0", "0">>), Ref("parent", 12, "base_link"),
       Ref("child", 12, "arm_b"), Origin(12, V(1, 1, 1), <<>>), Axis(12, V(1, 0, 0), FALSE) >>

\* base_link -> l1, the joint element rotated by atan(4/3) about z
DocOblique ==
    << Link("base_link"), Mesh(1, <<>>),
       Link("l1"), Mesh(3, <<>>),
       Joint("j1", <<"0", "0", "atan43">>), Ref("parent", 5, "base_link"),
       Ref("child", 5, "l1"), Origin(5, V(1, 0, 0), <<>>), Axis(5, V(0, 0, 1), FALSE) >>

\* not a tree: base_link -> l1 -> base_link
DocCycle ==
    << Link("base_link"), Mesh(1, <<>>),
       Link("l1"), Mesh(3, <<>>),
       Joint("j1", <<>>), Ref("parent", 5, "base_link"), Ref("child", 5, "l1"),
       Origin(5, V(1, 0, 0), <<>>), Axis(5, V(1, 0, 0), FALSE),
       Joint("j2", <<>>), Ref("parent", 10, "l1"), Ref("child", 10, "base_link"),
       Origin(10, V(0, 1, 0), <<>>), Axis(10, V(0, 1, 0), FALSE) >>

\* a joint whose child names no link
DocDangling ==
    << Link("base_link"), Mesh(1, <<>>),
       Joint("j1", <<>>), Ref("parent", 3, "base_link"), Ref("child", 3, "ghost"),
       Origin(3, V(1, 0, 0), <<>>), Axis(3, V(1, 0, 0), FALSE) >>

\* no link named base_link
DocNoBase ==
    << Link("root"), Mesh(1, <<>>) >>

\* base_link -> l1, the joint's axis not normalised
DocLongAxis ==
    << Link("base_link"), Mesh(1, <<>>),
       Link("l1"), Mesh(3, <<>>),
       Joint("j1", <<>>), Ref("parent", 5, "base_link"), Ref("child", 5, "l1"),
       Origin(5, V(0, 0, 1), <<>>), Axis(5, V(0, 0, 2), FALSE) >>

Docs == << DocSingle, DocOriginRpy, DocJointRpy, DocBranch, DocBranchRpy,
           DocOblique, DocCycle, DocDangling, DocNoBase, DocLongAxis >>

\* the attributes the rescaling rewrites, as first parsed
InitAttrs(d) ==
    [e \in 1..Len(Docs[d]) |->
        [xyz |-> Docs[d][e].xyz, norm |-> Docs[d][e].norm,
         scale |-> Docs[d][e].scale, filename |-> Docs[d][e].filename]]

(***************************************************************************)
(* xml.etree.ElementTree: iter, findall, find.                             *)
(***************************************************************************)
RECURSIVE Within(_, _, _)
\* e is a or a descendant of a
Within(d, a, e) ==
    IF e = a THEN TRUE
    ELSE IF e = 0 THEN FALSE
    ELSE Within(d, a, Docs[d][e].parent)

Indices(d) == [i \in 1..Len(Docs[d]) |-> i]
TagMatches(d, e, tag) == tag = "*" \/ Docs[d][e].tag = tag

\* a.iter(tag): a and its descendants with that tag, in document order
Iter(d, a, tag) ==
    SelectSeq(Indices(d), LAMBDA e : Within(d, a, e) /\ TagMatches(d, e, tag))
\* object_tree.iter(tag)
IterTree(d, tag) == SelectSeq(Indices(d), LAMBDA e : Docs[d][e].tag = tag)
\* object_tree.findall(tag): the children of the root with that tag
FindAll(d, tag) ==
    SelectSeq(Indices(d), LAMBDA e : Docs[d][e].parent = 0 /\ Docs[d][e].tag = tag)
\* a.find(tag): the first child of a with that tag (0: None)
Find(d, a, tag) ==
    LET c == SelectSeq(Indices(d), LAMBDA e : Docs[d][e].parent = a /\ Docs[d][e].tag = tag)
    IN  IF c = <<>> THEN 0 ELSE Head(c)

(***************************************************************************)
(* InteractiveObj2.__init__: the steps of the rescaling.                   *)
(***************************************************************************)
\* parent_link_name = None
NoLink == ""

\* mesh.attrib['filename'] = model_path + "/" + mesh.attrib['filename']
ResolveMeshPaths(a, d) ==
    [e \in DOMAIN a |->
        IF Docs[d][e].tag = "mesh"
        THEN [a[e] EXCEPT !.filename = <<"model_path", "/">> \o @]
        ELSE a[e]]

\* (a variant that sets the scale attribute whether or not there is one)
ScaleMesh_Overwrite(a, m, s) == [a EXCEPT ![m].scale = s]

\* one mesh of the inner loop: multiply the scale attribute, or set it
ScaleMesh(a, m, s) ==
    IF a[m].scale # <<>>
    THEN [a EXCEPT ![m].scale = VMul(@, s)]
    ELSE [a EXCEPT ![m].scale = s]

\* one origin: multiply xyz
ScaleOrigin(a, o, s) == [a EXCEPT ![o].xyz = VMul(@, s)]

\* one axis: multiply xyz, then divide by the norm
ScaleAxis(a, x, s) ==
    CHOOSE r \in {[a EXCEPT ![x].xyz = n.xyz, ![x].norm = n.norm] :
                    n \in {Normalize(VMul(a[x].xyz, s))}} : TRUE

\* (An intermediate result is bound as the one element of a set, so that it
\* is a value computed once wherever it is used.)
RECURSIVE ScaleMeshes(_, _, _)
\* for mesh in xml_child.iter("mesh")
ScaleMeshes(a, meshes, s) ==
    IF meshes = <<>> THEN a
    ELSE CHOOSE r \in {ScaleMeshes(a1, Tail(meshes), s) :
                          a1 \in {ScaleMesh(a, Head(meshes), s)}} : TRUE

RECURSIVE ScaleOrigins(_, _, _)
\* for origin in xml_child.iter("origin"), for origin in joint_new.iter("origin")
ScaleOrigins(a, origins, s) ==
    IF origins = <<>> THEN a
    ELSE CHOOSE r \in {ScaleOrigins(a1, Tail(origins), s) :
                          a1 \in {ScaleOrigin(a, Head(origins), s)}} : TRUE

RECURSIVE ScaleAxes(_, _, _)
\* for axis in self.object_tree.iter("axis")
ScaleAxes(a, axes, s) ==
    IF axes = <<>> THEN a
    ELSE CHOOSE r \in {ScaleAxes(a1, Tail(axes), s) :
                          a1 \in {ScaleAxis(a, Head(axes), s)}} : TRUE

\* the elements the loop "for xml_child in parent_link.iter()" goes through
LinkChildren(d, link) == Iter(d, link, "*")

RECURSIVE ScaleLinkElements(_, _, _, _)
\* for xml_child in parent_link.iter(): its meshes, then its origins
ScaleLinkElements(a, d, children, s) ==
    IF children = <<>> THEN a
    ELSE CHOOSE r \in
            {ScaleLinkElements(a2, d, Tail(children), s) :
                a2 \in {ScaleOrigins(a1, Iter(d, Head(children), "origin"), s) :
                          a1 \in {ScaleMeshes(a, Iter(d, Head(children), "mesh"), s)}}} : TRUE

\* the rotation the code reads for a joint: "rpy" in joint_new.keys()
JointRpy(d, j) == Docs[d][j].rpy

\* scale after the joint: rotated (absolute values) when the joint has an rpy
RotateScale(s, rpy) ==
    IF rpy # <<>>
    THEN CHOOSE r \in {VAbs(v) : v \in {rotate_vector_3d(s, rpy)}} : TRUE
    ELSE s

RECURSIVE ProcessJoints(_, _, _)
\* for joint_new in joint_news: st is [attrs, scale] so far
ProcessJoints(st, d, joints) ==
    IF joints = <<>> THEN st
    ELSE CHOOSE r \in
            {ProcessJoints(st1, d, Tail(joints)) :
                st1 \in {[attrs |-> ScaleAxes(a1, IterTree(d, "axis"), s1), scale |-> s1] :
                            a1 \in {ScaleOrigins(st.attrs, Iter(d, Head(joints), "origin"),
                                                 st.scale)},
                            s1 \in {RotateScale(st.scale, JointRpy(d, Head(joints)))}}} : TRUE

\* [link for link in findall("link") if link.attrib["name"] == name]
LinksNamed(d, name) ==
    SelectSeq(FindAll(d, "link"), LAMBDA l : Docs[d][l].name = name)

\* [joint for joint in findall("joint") if joint.find("parent").attrib["link"] == name]
JointsWithParent(d, name) ==
    SelectSeq(FindAll(d, "joint"),
              LAMBDA j : Docs[d][Find(d, j, "parent")].link = name)

\* (a variant that follows the first joint's parent element)
NextLink_Parent(d, joint_news) == Docs[d][Find(d, Head(joint_news), "parent")].link

\* joint_news[0].find("child").attrib["link"]
NextLink(d, joint_news) == Docs[d][Find(d, Head(joint_news), "child")].link

\* np.divide(bounding_box, original_bbox)
BaseScale(bb, orig) == VDiv(bb, orig)

\* the bounding_box attributes and the bbox.json extents that are tried
TargetBoxes == {<<Q(x), Q(y), Q(1)>> : x \in 0..MaxDim, y \in 0..MaxDim}
OriginalBoxes == {<<Q(x), Q(y), Q(z)>> : x \in 0..MaxDim, y \in 0..MaxDim, z \in 1..2}

\* the object as Object.__init__ leaves it
NoBody == -1
NoCall == [op |-> "none", raised |-> "none", ret |-> NoBody, val |-> "none",
           calls |-> 0, wasLoaded |-> FALSE]
ObjectInit ==
    /\ body_id = NoBody
    /\ loaded = FALSE
    /\ engine = [bodies |-> 0, creates |-> 0, pos |-> "p0", orn |-> "q0"]
    /\ last = NoCall
    /\ returned = {}
    /\ ncalls = 0

\* before InteractiveObj2(xml_element) is called: no tree parsed yet
NoDoc == 0
Init ==
    /\ doc = NoDoc
    /\ attrs = <<>>
    /\ hasBBox = FALSE
    /\ bounding_box = Ones
    /\ original_bbox = Ones
    /\ scale = <<>>
    /\ parent_link_name = NoLink
    /\ pc = "new"
    /\ pass = 1
    /\ err = "none"
    /\ trace = <<>>
    /\ ObjectInit

\* __init__ up to the loop, for the tree d that ET.parse returns, with (hb)
\* or without a bounding_box attribute bb, and misc/bbox.json giving ob:
\* mesh paths, then the base scale
ConstructWith(d, hb, bb, ob) ==
    /\ pc = "new"
    /\ doc' = d
    /\ hasBBox' = hb
    /\ bounding_box' = bb
    /\ original_bbox' = ob
    /\ attrs' = ResolveMeshPaths(InitAttrs(d), d)
    /\ IF hb
       THEN /\ scale' = BaseScale(bb, ob)
            /\ parent_link_name' = "base_link"
            /\ pc' = "loop"
       ELSE /\ pc' = "built"
            /\ UNCHANGED <<scale, parent_link_name>>
    /\ UNCHANGED <<pass, err, trace>>
    /\ UNCHANGED objVars

Construct ==
    \E d \in 1..Len(Docs), hb \in BOOLEAN :
        \E bb \in (IF hb THEN TargetBoxes ELSE {Ones}),
           ob \in (IF hb THEN OriginalBoxes ELSE {Ones}) :
            ConstructWith(d, hb, bb, ob)

\* one iteration of "while parent_link_name != None"
VisitLink ==
    /\ pc = "loop"
    /\ Len(trace) < MaxVisits
    /\ LET links == LinksNamed(doc, parent_link_name)
       IN  IF links = <<>>
           THEN /\ err' = "IndexError"
                /\ pc' = "failed"
                /\ UNCHANGED <<attrs, scale, parent_link_name, trace>>
           ELSE \E parent_link \in {Head(links)} :
                \E a1 \in {ScaleLinkElements(attrs, doc, LinkChildren(doc, parent_link),
                                             scale)},
                   joint_news \in {JointsWithParent(doc, Docs[doc][parent_link].name)} :
                    /\ trace' = Append(trace, [link |-> parent_link_name, scale |-> scale])
                    /\ err' = err
                    /\ IF joint_news # <<>>
                       THEN \E r \in {ProcessJoints([attrs |-> a1, scale |-> scale],
                                                    doc, joint_news)} :
                                /\ attrs' = r.attrs
                                /\ scale' = r.scale
                                /\ parent_link_name' = NextLink(doc, joint_news)
                                /\ pc' = "loop"
                       ELSE /\ attrs' = a1
                            /\ scale' = scale
                            /\ parent_link_name' = NoLink
                            /\ pc' = "built"
    /\ UNCHANGED <<doc, hasBBox, bounding_box, original_bbox, pass>>
    /\ UNCHANGED objVars

\* the rescaling applied again to the rescaled tree, now from bounding_box
\* back to original_bbox: the element-wise inverse of the base scale
RescaleBack ==
    /\ pc = "built"
    /\ hasBBox
    /\ pass = 1
    /\ pass' = 2
    /\ scale' = BaseScale(original_bbox, bounding_box)
    /\ parent_link_name' = "base_link"
    /\ pc' = "loop"
    /\ trace' = <<>>
    /\ UNCHANGED <<doc, attrs, hasBBox, bounding_box, original_bbox, err>>
    /\ UNCHANGED objVars

Next == Construct \/ VisitLink \/ RescaleBack

Spec == Init /\ [][Next]_vars

\* the loop runs on: a sequential program takes its next step
LiveSpec == Init /\ [][Next]_vars /\ WF_vars(Construct) /\ WF_vars(VisitLink)

(***************************************************************************)
(* Object: load() and the pose accessors.  The physics engine numbers the  *)
(* bodies it creates 0, 1, ...; a creation call either returns the new     *)
(* body's id or raises.  A pose call on something that is no body id       *)
(* (None) is rejected by the engine's argument parsing, after the call was *)
(* made.                                                                   *)
(***************************************************************************)
Positions == {"p0", "p1"}
Orientations == {"q0", "q1"}

\* what the engine raises for a body id that is None
EngineRejects(b) == b = NoBody

\* self._load(): ok is whether the engine creates the body; the result is
\* [raised, ret, engine]
EngineCreate(eng, ok) ==
    IF ok
    THEN [raised |-> "none", ret |-> eng.bodies,
          engine |-> [eng EXCEPT !.bodies = @ + 1, !.creates = @ + 1,
                                 !.pos = "p0", !.orn = "q0"]]
    ELSE [raised |-> "EngineCallError", ret |-> NoBody,
          engine |-> [eng EXCEPT !.creates = @ + 1]]

\* (a variant without the "if self.loaded" early return)
LoadResult_NoGuard(b, l, eng, ok) ==
    LET r == EngineCreate(eng, ok)
    IN  IF r.raised # "none"
        THEN [body_id |-> b, loaded |-> l, engine |-> r.engine,
              raised |-> r.raised, ret |-> NoBody, calls |-> 1]
        ELSE [body_id |-> r.ret, loaded |-> TRUE, engine |-> r.engine,
              raised |-> "none", ret |-> r.ret, calls |-> 1]

\* (a variant that sets self.loaded before calling self._load())
LoadResult_EarlyFlag(b, l, eng, ok) ==
    IF l
    THEN [body_id |-> b, loaded |-> l, engine |-> eng,
          raised |-> "none", ret |-> b, calls |-> 0]
    ELSE LET r == EngineCreate(eng, ok)
         IN  IF r.raised # "none"
             THEN [body_id |-> b, loaded |-> TRUE, engine |-> r.engine,
                   raised |-> r.raised, ret |-> NoBody, calls |-> 1]
             ELSE [body_id |-> r.ret, loaded |-> TRUE, engine |-> r.engine,
                   raised |-> "none", ret |-> r.ret, calls |-> 1]

\* load(): the next values [body_id, loaded, engine, raised, ret, calls]
LoadResult(b, l, eng, ok) ==
    IF l
    THEN [body_id |-> b, loaded |-> l, engine |-> eng,
          raised |-> "none", ret |-> b, calls |-> 0]
    ELSE LET r == EngineCreate(eng, ok)
         IN  IF r.raised # "none"
             THEN [body_id |-> b, loaded |-> l, engine |-> r.engine,
                   raised |-> r.raised, ret |-> NoBody, calls |-> 1]
             ELSE [body_id |-> r.ret, loaded |-> TRUE, engine |-> r.engine,
                   raised |-> "none", ret |-> r.ret, calls |-> 1]

Load ==
    /\ pc = "built"
    /\ ncalls < MaxCalls
    /\ \E ok \in BOOLEAN :
        LET r == LoadResult(body_id, loaded, engine, ok)
        IN  /\ body_id' = r.body_id
            /\ loaded' = r.loaded
            /\ engine' = r.engine
            /\ last' = [op |-> "load", raised |-> r.raised, ret |-> r.ret,
                        val |-> "none", calls |-> r.calls, wasLoaded |-> loaded]
            /\ returned' = IF r.raised = "none" THEN returned \cup {r.ret} ELSE returned
    /\ ncalls' = ncalls + 1
    /\ UNCHANGED treeVars

\* a pose accessor or mutator: reads is whether it first calls
\* getBasePositionAndOrientation, writes whether it then calls
\* resetBasePositionAndOrientation with (pos, orn), out is what it returns;
\* the result is [engine, raised, val, calls]
PoseCall(b, eng, reads, writes, pos, orn, out) ==
    IF EngineRejects(b)
    THEN [engine |-> eng, raised |-> "TypeError", val |-> "none", calls |-> 1]
    ELSE [engine |-> IF writes THEN [eng EXCEPT !.pos = pos, !.orn = orn] ELSE eng,
          raised |-> "none",
          val |-> out,
          calls |-> (IF reads THEN 1 ELSE 0) + (IF writes THEN 1 ELSE 0)]

PoseOp(op, reads, writes, pos, orn, out) ==
    /\ pc = "built"
    /\ ncalls < MaxCalls
    /\ LET r == PoseCall(body_id, engine, reads, writes, pos, orn, out)
       IN  /\ engine' = r.engine
           /\ last' = [op |-> op, raised |-> r.raised, ret |-> NoBody,
                       val |-> r.val, calls |-> r.calls, wasLoaded |-> loaded]
    /\ ncalls' = ncalls + 1
    /\ UNCHANGED <<body_id, loaded, returned>>
    /\ UNCHANGED treeVars

GetPosition ==
    PoseOp("get_position", TRUE, FALSE, engine.pos, engine.orn, engine.pos)
GetOrientation ==
    PoseOp("get_orientation", TRUE, FALSE, engine.pos, engine.orn, engine.orn)
SetPosition ==
    \E pos \in Positions :
        PoseOp("set_position", TRUE, TRUE, pos, engine.orn, "none")
SetOrientation ==
    \E orn \in Orientations :
        PoseOp("set_orientation", TRUE, TRUE, engine.pos, orn, "none")
SetPositionOrientation ==
    \E pos \in Positions, orn \in Orientations :
        PoseOp("set_position_orientation", FALSE, TRUE, pos, orn, "none")

PoseOps == {"get_position", "get_orientation", "set_position", "set_orientation",
            "set_position_orientation"}

\* an object of any class, constructed without a bounding box
ObjInit ==
    /\ doc = 1
    /\ attrs = ResolveMeshPaths(InitAttrs(doc), doc)
    /\ hasBBox = FALSE
    /\ bounding_box = Ones
    /\ original_bbox = Ones
    /\ scale = <<>>
    /\ parent_link_name = NoLink
    /\ pc = "built"
    /\ pass = 1
    /\ err = "none"
    /\ trace = <<>>
    /\ ObjectInit

ObjNext ==
    \/ Load
    \/ GetPosition
    \/ GetOrientation
    \/ SetPosition
    \/ SetOrientation
    \/ SetPositionOrientation

ObjSpec == ObjInit /\ [][ObjNext]_vars

(***************************************************************************)
(* Vocabulary of the properties.                                           *)
(***************************************************************************)
Elements(d) == 1..Len(Docs[d])
LinkElements(d) == {l \in Elements(d) : Docs[d][l].tag = "link" /\ Docs[d][l].parent = 0}
\* the elements with a tag inside link l
OwnedBy(d, l, tag) == {e \in Elements(d) : Docs[d][e].tag = tag /\ e # l /\ Within(d, l, e)}
AxesOf(d) == {e \in Elements(d) : Docs[d][e].tag = "axis"}
JointElements(d) == {j \in Elements(d) : Docs[d][j].tag = "joint"}

\* a mesh scale attribute as a value: absent means (1, 1, 1)
ScaleValue(sc) == IF sc = <<>> THEN Ones ELSE sc

\* the link element the i-th iteration of the current pass visited
VisitedLink(i) == Head(LinksNamed(doc, trace[i].link))
\* the link was visited once in the current pass
VisitedOnce(i) == \A k \in DOMAIN trace : trace[k].link = trace[i].link => k = i

\* no rpy attribute anywhere in the tree
NoRpy(d) == \A e \in Elements(d) : Docs[d][e].rpy = <<>>

\* every rotation the rescaling reads is a multiple of 90 degrees
RightAngleJoints(d) == \A j \in JointElements(d) : JointRpy(d, j) # <<>> => RightAngles(JointRpy(d, j))

\* every axis of the tree as parsed has magnitude 1
UnitAxes(d) == \A x \in AxesOf(d) : AxisIsUnit(Docs[d][x].xyz, Docs[d][x].norm)

\* both boxes are proper: the base scale is finite and has no zero component
ProperBoxes == VNonZero(original_bbox) /\ VNonZero(bounding_box)

\* mesh scales, origin translations and axes are what they were when parsed
Restored ==
    \A e \in Elements(doc) :
        /\ Docs[doc][e].tag = "mesh" => ScaleValue(attrs[e].scale) = ScaleValue(Docs[doc][e].scale)
        /\ Docs[doc][e].tag = "origin" => attrs[e].xyz = Docs[doc][e].xyz
        /\ Docs[doc][e].tag = "axis" =>
              AxisValue(attrs[e].xyz, attrs[e].norm) = AxisValue(Docs[doc][e].xyz, Docs[doc][e].norm)

(***************************************************************************)
(* C1.  Every mesh owned by a visited link has its scale multiplied by the *)
(* scale current at that link exactly once: after the visit the mesh scale *)
(* is its parsed scale (1, 1, 1 when absent) times the link's entry scale, *)
(* whatever the depth of the mesh below the link.  Stated for proper       *)
(* boxes.                                                                  *)
(***************************************************************************)
C1_MeshScaledOnce ==
    (pass = 1 /\ ProperBoxes) =>
        \A i \in DOMAIN trace :
            VisitedOnce(i) =>
                \A m \in OwnedBy(doc, VisitedLink(i), "mesh") :
                    attrs[m].scale = VMul(ScaleValue(Docs[doc][m].scale), trace[i].scale)

(***************************************************************************)
(* C2.  In a tree with no rpy anywhere, once the rescaling has completed   *)
(* the meshes and origins of every link of the tree carry the base scale   *)
(* bounding_box / original_bbox, applied once and unchanged.  Stated for   *)
(* proper boxes.                                                           *)
(***************************************************************************)
C2_BaseScaleEverywhere ==
    (pc = "built" /\ pass = 1 /\ hasBBox /\ NoRpy(doc) /\ ProperBoxes) =>
        LET base == BaseScale(bounding_box, original_bbox)
        IN  \A l \in LinkElements(doc) :
                /\ \A m \in OwnedBy(doc, l, "mesh") :
                       attrs[m].scale = VMul(ScaleValue(Docs[doc][m].scale), base)
                /\ \A o \in OwnedBy(doc, l, "origin") :
                       attrs[o].xyz = VMul(Docs[doc][o].xyz, base)

(***************************************************************************)
(* C3.  When the only joint leaving a visited link has an origin element   *)
(* whose rpy is 90 degrees about one axis, the scale on entry to the child *)
(* link is the scale on entry to the parent with the components of the two *)
(* other axes swapped (absolute values), the third unchanged.  Stated for  *)
(* proper boxes.                                                           *)
(***************************************************************************)
QuarterTurnAxis(rpy) ==
    IF rpy = <<"90", "0", "0">> THEN 1
    ELSE IF rpy = <<"0", "90", "0">> THEN 2
    ELSE IF rpy = <<"0", "0", "90">> THEN 3
    ELSE 0

SwapAbs(s, k) ==
    IF k = 1 THEN VAbs(<<s[1], s[3], s[2]>>)
    ELSE IF k = 2 THEN VAbs(<<s[3], s[2], s[1]>>)
    ELSE VAbs(<<s[2], s[1], s[3]>>)

C3_OriginRpySwapsScale ==
    (pass = 1 /\ ProperBoxes) =>
        \A i \in DOMAIN trace :
            i + 1 \in DOMAIN trace =>
                LET joints == JointsWithParent(doc, trace[i].link)
                    o == Find(doc, Head(joints), "origin")
                IN  (/\ Len(joints) = 1
                     /\ o # 0
                     /\ QuarterTurnAxis(Docs[doc][o].rpy) # 0) =>
                        trace[i + 1].scale
                            = SwapAbs(trace[i].scale, QuarterTurnAxis(Docs[doc][o].rpy))

(***************************************************************************)
(* C4.  After the rescaling has completed, every motion axis of the tree   *)
(* has magnitude 1, for every target bounding box (a zero component        *)
(* included); stated for the original_bbox the construction is meant to    *)
(* accept (no zero component).                                             *)
(***************************************************************************)
C4_AxesUnitLength ==
    (pc = "built" /\ pass = 1 /\ hasBBox /\ VNonZero(original_bbox)) =>
        \A x \in AxesOf(doc) : AxisIsUnit(attrs[x].xyz, attrs[x].norm)

(***************************************************************************)
(* C5, as claimed.  Whenever original_bbox has no zero component,          *)
(* rescaling to bounding_box and then back with the inverse scale restores *)
(* every mesh scale, origin translation and joint axis.                    *)
(***************************************************************************)
C5_RoundTrip_AsClaimed ==
    (pc = "built" /\ pass = 2 /\ VNonZero(original_bbox)) => Restored

(***************************************************************************)
(* C5, amended.  The round trip restores every mesh scale, origin          *)
(* translation and joint axis when neither original_bbox nor bounding_box  *)
(* has a zero component and every rpy attribute of a joint element is a    *)
(* multiple of 90 degrees about each axis (the axes being unit vectors).   *)
(***************************************************************************)
C5_RoundTrip ==
    (/\ pc = "built" /\ pass = 2
     /\ VNonZero(original_bbox) /\ VNonZero(bounding_box)
     /\ RightAngleJoints(doc) /\ UnitAxes(doc)) => Restored

\* a rotated, anisotropic round trip over three links has completed
C5_Witness ==
    /\ pc = "built" /\ pass = 2 /\ Len(trace) = 3
    /\ bounding_box = V(2, 1, 1) /\ original_bbox = V(1, 1, 2)
    /\ \E j \in JointElements(doc) : JointRpy(doc, j) # <<>>
    /\ RightAngleJoints(doc)

(***************************************************************************)
(* C6, as claimed.  After any load() call the engine creation routine has  *)
(* been invoked exactly once, and all calls returned one handle.           *)
(***************************************************************************)
C6_CreatedOnce_AsClaimed ==
    /\ Cardinality(returned) <= 1
    /\ last.op = "load" => engine.creates = 1

(***************************************************************************)
(* C6, amended.  Every load() call that returns returns the same handle;   *)
(* the creation routine is invoked by exactly the calls made while the     *)
(* object is Unloaded (again after a creation that raised) and succeeds at *)
(* most once, which is what makes the object Loaded; load() on a Loaded    *)
(* object invokes nothing and returns the existing handle.                 *)
(***************************************************************************)
C6_LoadIdempotent ==
    /\ Cardinality(returned) <= 1
    /\ engine.bodies <= 1
    /\ loaded <=> engine.bodies = 1
    /\ last.op = "load" =>
          /\ last.calls = (IF last.wasLoaded THEN 0 ELSE 1)
          /\ last.wasLoaded => last.raised = "none"
          /\ last.raised = "none" => (loaded /\ last.ret = body_id /\ returned = {body_id})

\* load() has just been called on a Loaded object, after an earlier creation
\* had raised
C6_Witness ==
    /\ last.op = "load" /\ last.wasLoaded
    /\ engine.creates = 2 /\ engine.bodies = 1

(***************************************************************************)
(* C7.  A pose accessor or mutator called on an Unloaded object fails with *)
(* NotLoadedError and makes no call to the physics engine.                 *)
(***************************************************************************)
C7_PoseWhileUnloaded ==
    (last.op \in PoseOps /\ ~last.wasLoaded) =>
        (last.raised = "NotLoadedError" /\ last.calls = 0)

(***************************************************************************)
(* C8.  In every state loaded implies a creation call has succeeded and a  *)
(* handle is held, body_id is None while not loaded, a load() that raised  *)
(* leaves the object Unloaded with body_id None, and loaded never goes     *)
(* from true back to false.                                                *)
(***************************************************************************)
C8_State ==
    /\ loaded => (engine.bodies >= 1 /\ body_id # NoBody)
    /\ ~loaded => body_id = NoBody
    /\ (last.op = "load" /\ last.raised # "none") => (~loaded /\ body_id = NoBody)

C8_LoadedMonotonic == [](C8_State) /\ [][loaded => loaded']_vars

\* the object is Unloaded after two creations that raised
C8_Witness ==
    /\ last.op = "load" /\ last.raised # "none"
    /\ engine.creates = 2 /\ ~loaded

(***************************************************************************)
(* C9.  With a bounding box requested and an original_bbox that has a zero *)
(* component, construction fails with MalformedTreeError before the base   *)
(* scale is computed, before any scale, origin or axis of the tree is      *)
(* modified and before any engine call.                                    *)
(***************************************************************************)
Unscaled ==
    \A e \in Elements(doc) :
        /\ attrs[e].scale = Docs[doc][e].scale
        /\ attrs[e].xyz = Docs[doc][e].xyz
        /\ attrs[e].norm = Docs[doc][e].norm

C9_ZeroBBoxRejected ==
    (pc # "new" /\ hasBBox /\ ~VNonZero(original_bbox)) =>
        (err = "MalformedTreeError" /\ scale = <<>> /\ Unscaled /\ engine.creates = 0)

(***************************************************************************)
(* C10.  For an acyclic tree with a base_link whose joints name existing   *)
(* links, the loop terminates; every iteration visits a link not visited   *)
(* before in the pass, and the loop ends exactly at a link with no         *)
(* outgoing joint.                                                         *)
(***************************************************************************)
LinkNames(d) == {Docs[d][l].name : l \in LinkElements(d)}
\* the links one joint away from the link named n
Children(d, n) ==
    {Docs[d][Find(d, j, "child")].link :
        j \in {k \in JointElements(d) : Docs[d][Find(d, k, "parent")].link = n}}

RECURSIVE ReachableIn(_, _, _)
\* the links reachable from the set of names ns by 1..k joints
ReachableIn(d, ns, k) ==
    IF k = 0 THEN {}
    ELSE LET next == UNION {Children(d, n) : n \in ns}
         IN  next \cup ReachableIn(d, next, k - 1)

Acyclic(d) == \A n \in LinkNames(d) : n \notin ReachableIn(d, {n}, Cardinality(LinkNames(d)))

WellFormedTree(d) ==
    /\ "base_link" \in LinkNames(d)
    /\ \A j \in JointElements(d) :
          /\ Docs[d][Find(d, j, "parent")].link \in LinkNames(d)
          /\ Docs[d][Find(d, j, "child")].link \in LinkNames(d)
    /\ Acyclic(d)

C10_Step ==
    (pc # "new" /\ WellFormedTree(doc)) =>
        /\ \A i, k \in DOMAIN trace : trace[i].link = trace[k].link => i = k
        /\ pc = "loop" => \A i \in DOMAIN trace : trace[i].link # parent_link_name
        /\ (pc = "built" /\ trace # <<>>) =>
              JointsWithParent(doc, trace[Len(trace)].link) = <<>>
        /\ (pc = "loop" /\ trace # <<>>) =>
              JointsWithParent(doc, trace[Len(trace)].link) # <<>>
        /\ err = "none"

C10_Terminates ==
    /\ [](C10_Step)
    /\ (pc = "loop" /\ WellFormedTree(doc)) ~> (pc = "built")

\* the loop has ended after visiting three links
C10_Witness == pc = "built" /\ WellFormedTree(doc) /\ Len(trace) = 3

(***************************************************************************)
(* C11.  When a visited link has several outgoing joints, the origin       *)
(* translation of each of them is multiplied by the scale on entry to the  *)
(* link, the next link visited is the child of the first of them in        *)
(* document order, and the scale on entry to that child is the entry scale *)
(* rotated by the first joint's rotation only.  Stated for proper boxes.   *)
(***************************************************************************)
C11_SiblingJoints ==
    (pass = 1 /\ ProperBoxes) =>
        \A i \in DOMAIN trace :
            (VisitedOnce(i) /\ i + 1 \in DOMAIN trace) =>
                LET joints == JointsWithParent(doc, trace[i].link)
                IN  Len(joints) > 1 =>
                        /\ \A k \in DOMAIN joints :
                               LET origins == Iter(doc, joints[k], "origin")
                               IN  \A n \in DOMAIN origins :
                                       attrs[origins[n]].xyz
                                           = VMul(Docs[doc][origins[n]].xyz, trace[i].scale)
                        /\ trace[i + 1].link = NextLink(doc, joints)
                        /\ trace[i + 1].scale
                               = RotateScale(trace[i].scale, JointRpy(doc, Head(joints)))

====
